---------------------------- MODULE Spec2Model ----------------------------
(***************************************************************************)
(* Callable regions of a reference genome (bcbio/bam/callable.py).         *)
(*                                                                         *)
(* The specifications of this module:                                     *)
(*   SpecRegions  block_regions and its helpers as a pure pipeline over    *)
(*                a bounded BAM coverage, target set and threshold;        *)
(*   SpecCombine  combine_sample_regions over a bounded list of samples;   *)
(*   Spec         the files the module writes, with workers that crash     *)
(*                and a driver that re-runs the step;                      *)
(*   FairSpec     Spec with the workers' and the driver's steps fair.      *)
(*                                                                         *)
(* An interval is <<contig, start, end>>, half open and 0-based; an        *)
(* interval set is a sequence of intervals, as a BED file is a sequence    *)
(* of lines.                                                               *)
(***************************************************************************)
EXTENDS Integers, Sequences, FiniteSets, TLC

\* ------------------------------------------------------------------ bounds

\* Length of the first reference contig (the second is one base long).
MaxLen == 3
\* Largest nomap_split_size a configuration sets.
MaxSplitSize == 1
\* Largest number of samples handed to combine_sample_regions.
MaxSamples == 2

\* ------------------------------------------------------------- reference

\* The @SQ lines of the reference dictionary, in their declared order.
Contigs == <<"chr1", "chr2">>

ContigLen(c) == IF c = "chr1" THEN MaxLen ELSE 1

ContigIndex(c) == CHOOSE i \in DOMAIN Contigs : Contigs[i] = c

\* Every base of the reference, as <<contig, position>>.
RefBases == UNION { {<<Contigs[i], p>> : p \in 0..(ContigLen(Contigs[i]) - 1)} : i \in DOMAIN Contigs }

\* A faulty variant: the @SQ entries taken last to first.
get_ref_bedtool_Reversed ==
    [i \in DOMAIN Contigs |-> <<Contigs[Len(Contigs) + 1 - i], 0, ContigLen(Contigs[Len(Contigs) + 1 - i])>>]

\* get_ref_bedtool: one line "SN 0 LN" per @SQ entry, in header order.
get_ref_bedtool == [i \in DOMAIN Contigs |-> <<Contigs[i], 0, ContigLen(Contigs[i])>>]

\* ------------------------------------------------------ interval algebra

\* The bases an interval set covers.
Bases(I) == UNION { {<<I[i][1], p>> : p \in I[i][2]..(I[i][3] - 1)} : i \in DOMAIN I }

RECURSIVE Flatten(_)
Flatten(ss) == IF ss = <<>> THEN <<>> ELSE Head(ss) \o Flatten(Tail(ss))

\* The maximal runs of the positions S of contig c within [p, hi), ascending.
RECURSIVE Runs(_, _, _, _)
Runs(c, S, p, hi) ==
    IF p >= hi THEN <<>>
    ELSE IF p \notin S THEN Runs(c, S, p + 1, hi)
    ELSE LET e == CHOOSE x \in (p + 1)..hi :
                     /\ \A q \in p..(x - 1) : q \in S
                     /\ (x = hi \/ x \notin S)
         IN  <<<<c, p, e>>>> \o Runs(c, S, e, hi)

\* A.subtract(B): each feature of A, in A's order, cut down to the parts no
\* feature of B overlaps; features of A are not joined with each other.
Subtract(A, B) ==
    LET covered == Bases(B)
        piece(a) == Runs(a[1], {p \in a[2]..(a[3] - 1) : <<a[1], p>> \notin covered}, a[2], a[3])
    IN  Flatten([i \in DOMAIN A |-> piece(A[i])])

\* The positions of contig c that the union of A and B covers once features
\* at most d bases apart are joined: the covered positions, plus every
\* uncovered stretch of at most d bases with a covered base on both sides.
MergedPositions(A, B, d, c) ==
    LET S == {p \in 0..(ContigLen(c) - 1) : <<c, p>> \in Bases(A) \cup Bases(B)}
    IN  S \cup {p \in 0..(ContigLen(c) - 1) :
                  /\ p \notin S
                  /\ \E lo \in S, hi \in S :
                        /\ lo < p /\ p < hi
                        /\ hi - lo - 1 <= d
                        /\ \A q \in (lo + 1)..(hi - 1) : q \notin S}

\* merge(A, B, gap): the union of A and B in contig order, overlapping and
\* abutting features coalesced, and features within gap bases coalesced.
Merge(A, B, d) ==
    Flatten([i \in DOMAIN Contigs |->
               Runs(Contigs[i], MergedPositions(A, B, d, Contigs[i]), 0, ContigLen(Contigs[i]))])

\* An interval set from a set of bases: its maximal runs, in contig order.
FromBases(S) ==
    Flatten([i \in DOMAIN Contigs |->
               Runs(Contigs[i], {p \in 0..(ContigLen(Contigs[i]) - 1) : <<Contigs[i], p>> \in S},
                    0, ContigLen(Contigs[i]))])


\* ------------------------------------------------------------- classifier

\* The categories CallableLoci reports.
Categories == {"CALLABLE", "NO_COVERAGE", "REF_N", "LOW_COVERAGE"}

\* A region restriction: none (given = FALSE) or the bases it names.
NoRegion == [given |-> FALSE, bases |-> {}]

ContigRegion(c) == [given |-> TRUE, bases |-> {b \in RefBases : b[1] = c}]

\* shared.subset_variant_regions(variant_regions, region, out_file): the
\* targets when no region is asked for, the region when no targets are
\* configured, and otherwise the targets that lie in the region.
subset_variant_regions(vr, region) ==
    IF ~region.given THEN [given |-> vr.configured, bases |-> Bases(vr.regions)]
    ELSE IF ~vr.configured THEN region
    ELSE [given |-> TRUE, bases |-> region.bases \cap Bases(vr.regions)]

\* The records of contig c from position p on: one record per maximal run of
\* bases of R with the same category.
RECURSIVE ClassifyFrom(_, _, _, _)
ClassifyFrom(cov, R, c, p) ==
    IF p >= ContigLen(c) THEN <<>>
    ELSE IF <<c, p>> \notin R THEN ClassifyFrom(cov, R, c, p + 1)
    ELSE LET same(q) == <<c, q>> \in R /\ cov[<<c, q>>] = cov[<<c, p>>]
             e == CHOOSE x \in (p + 1)..ContigLen(c) :
                     /\ \A q \in p..(x - 1) : same(q)
                     /\ (x = ContigLen(c) \/ ~same(x))
         IN  <<<<c, p, e, cov[<<c, p>>]>>>> \o ClassifyFrom(cov, R, c, e)

\* One run of the classifier (GATK -T CallableLoci): the records
\* "contig start end category" of the bases of R, in contig order.
Classify(cov, R) == Flatten([i \in DOMAIN Contigs |-> ClassifyFrom(cov, R, Contigs[i], 0)])

\* A faulty variant: a subset region without bases counts as no region.
run_gatk_EmptyIsNone(cov, L) ==
    IF L.given /\ L.bases # {} THEN Classify(cov, L.bases) ELSE Classify(cov, RefBases)

\* run_gatk(params): "-L region" is among the parameters only when the
\* subset region is true; without it the classifier covers the whole BAM.
run_gatk(cov, L) == IF L.given THEN Classify(cov, L.bases) ELSE Classify(cov, RefBases)

\* The records one call of calc_callable_loci has the classifier write.
GatkRecords(cov, vr, region) == run_gatk(cov, subset_variant_regions(vr, region))

\* parallel_callable_loci's result as a value: the records of the file it
\* returns, for one core (one run) and for several (one run per contig,
\* concatenated by combine_bed in split order).
CallableBedRecords(cov, vr, num_cores) ==
    IF num_cores > 1
    THEN Flatten([i \in DOMAIN Contigs |-> GatkRecords(cov, vr, ContigRegion(Contigs[i]))])
    ELSE GatkRecords(cov, vr, NoRegion)

\* ---------------------------------------------------------- block_regions

\* The categories _get_nblock_regions keeps.
NBlockCategories == {"REF_N", "NO_COVERAGE"}

\* A faulty variant: the threshold compared with >= instead of >.
KeepsNBlock_AtLeast(rec, min_n_size) == rec[4] \in NBlockCategories /\ rec[3] - rec[2] >= min_n_size

KeepsNBlock(rec, min_n_size) == rec[4] \in NBlockCategories /\ rec[3] - rec[2] > min_n_size

\* _get_nblock_regions: the records of a no-data category longer than
\* min_n_size, as "contig start end" lines in file order.
RECURSIVE _get_nblock_regions(_, _)
_get_nblock_regions(recs, min_n_size) ==
    IF recs = <<>> THEN <<>>
    ELSE LET r == Head(recs)
             rest == _get_nblock_regions(Tail(recs), min_n_size)
         IN  IF KeepsNBlock(r, min_n_size) THEN <<<<r[1], r[2], r[3]>>>> \o rest ELSE rest

\* A faulty variant: the merge applied whether or not variant_regions is configured.
_add_config_regions_Always(nblock_regions, ref_regions, vr) ==
    Merge(nblock_regions, Subtract(ref_regions, nblock_regions), 0)

\* _add_config_regions: with variant_regions configured the targets are read
\* into input_regions, which is not used again; input_nblock is the
\* reference minus the nblocks, and it is merged into the nblocks.
_add_config_regions(nblock_regions, ref_regions, vr) ==
    IF vr.configured
    THEN LET input_nblock == Subtract(ref_regions, nblock_regions)
         IN  Merge(nblock_regions, input_nblock, 0)
    ELSE nblock_regions

\* block_regions, with every intermediate value it computes.
block_regions(cov, vr, min_n_size, num_cores) ==
    LET callable_bed == CallableBedRecords(cov, vr, num_cores)
        ref_regions == get_ref_bedtool
        nblocks == _get_nblock_regions(callable_bed, min_n_size)
        adjusted == _add_config_regions(nblocks, ref_regions, vr)
    IN  [callable_bed |-> callable_bed,
         nblocks |-> nblocks,
         adjusted |-> adjusted,
         blocks |-> Subtract(ref_regions, adjusted)]

\* ------------------------------------------------------------------ state

VARIABLES
    coverage,          \* the BAM as the classifier sees it: base -> category
    variant_regions,   \* config["algorithm"]["variant_regions"]
    nomap_split_size,  \* config["algorithm"]["nomap_split_size"]
    num_cores,         \* config["algorithm"]["num_cores"]
    br,                \* block_regions: its position and the values it computed
    samples,           \* the list handed to combine_sample_regions
    region_files,      \* the files _write_bed_regions saves, by <<work dir, name>>
    cs_pc,             \* combine_sample_regions: its position
    cs_args,           \* the callable blocks of each sample as the call received them
    driver_pc,         \* parallel_callable_loci: its position
    pc,                \* each task's position (calc_callable_loci per region, combine_bed)
    fs,                \* the file system: path -> file
    copied,            \* combine_bed: the in_files copied so far
    calls,             \* classifier invocations: per task, their number and the last "-L"
    run_absent,        \* the tasks whose out_file did not exist when the current run began
    runs,              \* how many times the step has been run
    crashes,           \* how many workers have failed or been killed
    combined           \* combine_bed: how many times it was called, how many times it wrote

vars == <<coverage, variant_regions, nomap_split_size, num_cores, br,
          samples, region_files, cs_pc, cs_args,
          driver_pc, pc, fs, copied, calls, run_absent, runs, crashes, combined>>

regionVars == <<coverage, variant_regions, nomap_split_size, num_cores, br>>

combineVars == <<samples, region_files, cs_pc, cs_args>>

fileVars == <<driver_pc, pc, fs, copied, calls, run_absent, runs, crashes, combined>>

NoVariantRegions == [configured |-> FALSE, regions |-> <<>>]

\* A configuration's variant_regions: none, or a BED file of targets.
VariantRegionChoices ==
    {NoVariantRegions} \cup
    {[configured |-> TRUE, regions |-> FromBases(T)] : T \in (SUBSET RefBases) \ {{}}}

BrIdle == [pc |-> "idle", callable_bed |-> <<>>, nblocks |-> <<>>,
           adjusted |-> <<>>, blocks |-> <<>>]

RegionFileNames == {"analysis_blocks.bed", "noanalysis_blocks.bed"}

RegionPaths == (1..MaxSamples) \X RegionFileNames

NoFile == [exists |-> FALSE, lines |-> <<>>]

CombineIdle ==
    /\ samples = <<>>
    /\ region_files = [p \in RegionPaths |-> NoFile]
    /\ cs_pc = "idle"
    /\ cs_args = <<>>

\* The tasks of the step: calc_callable_loci over the whole genome (one
\* core) or once per contig (several cores), and combine_bed.
CalcTasks == {"whole"} \cup {Contigs[i] : i \in DOMAIN Contigs}

PartitionTasks == {Contigs[i] : i \in DOMAIN Contigs}

Tasks == CalcTasks \cup {"combine"}

\* The path of the callable BED of the BAM: calc_callable_loci's default
\* out_file, and the file process_bam_by_chromosome has the parts combined into.
CallableBed == <<"work", "callable.bed">>

\* out_summary: one path per BAM, whatever the region or out_file of the call.
SummaryFile == <<"work", "callable-summary.txt">>

\* The out_file of a task.
OutFile(t) == IF t \in PartitionTasks THEN <<"split", t>> ELSE CallableBed

\* file_transaction(out_file): the temporary path the block writes to.
TxFile(out_file) == <<"tx", out_file[2]>>

FinalPaths == {OutFile(t) : t \in Tasks} \cup {SummaryFile}

Paths == FinalPaths \cup {TxFile(OutFile(t)) : t \in Tasks}

\* A file: whether it exists, its lines, and whether its writer finished it.
Absent == [exists |-> FALSE, lines |-> <<>>, complete |-> FALSE]

NoCall == [n |-> 0, L |-> NoRegion, run |-> 0]

NotCombined == [calls |-> 0, writes |-> 0]

FilesIdle ==
    /\ driver_pc = "idle"
    /\ pc = [t \in Tasks |-> "idle"]
    /\ fs = [p \in Paths |-> Absent]
    /\ copied = 0
    /\ calls = [t \in CalcTasks |-> NoCall]
    /\ run_absent = {}
    /\ runs = 0
    /\ crashes = 0
    /\ combined = NotCombined

\* ------------------------------------------------------------ SpecRegions

InitRegions ==
    /\ coverage \in [RefBases -> Categories]
    /\ variant_regions \in VariantRegionChoices
    /\ nomap_split_size \in 0..MaxSplitSize
    /\ num_cores \in {1, 2}
    /\ br = [BrIdle EXCEPT !.pc = "start"]
    /\ CombineIdle
    /\ FilesIdle

\* block_regions(in_bam, ref_file, config), from call to return.
BlockRegions ==
    /\ br.pc = "start"
    /\ LET out == block_regions(coverage, variant_regions, nomap_split_size, num_cores)
       IN  br' = [pc |-> "done", callable_bed |-> out.callable_bed, nblocks |-> out.nblocks,
                  adjusted |-> out.adjusted, blocks |-> out.blocks]
    /\ UNCHANGED <<coverage, variant_regions, nomap_split_size, num_cores>>
    /\ UNCHANGED <<combineVars, fileVars>>

NextRegions == BlockRegions

SpecRegions == InitRegions /\ [][NextRegions]_vars

\* ------------------------------------------------- claims on block_regions

\* The records of the callable BED file that are no-data blocks above the
\* threshold, by their index in the file.
QualifyingRecords ==
    {i \in DOMAIN br.callable_bed :
        /\ br.callable_bed[i][4] \in {"NO_COVERAGE", "REF_N"}
        /\ br.callable_bed[i][3] - br.callable_bed[i][2] > nomap_split_size}

RecordCoords(i) == <<br.callable_bed[i][1], br.callable_bed[i][2], br.callable_bed[i][3]>>

InQualifyingRecord(b) ==
    \E i \in QualifyingRecords :
        /\ br.callable_bed[i][1] = b[1]
        /\ br.callable_bed[i][2] <= b[2]
        /\ b[2] < br.callable_bed[i][3]

\* C1: with variant_regions configured, the adjusted nblocks are
\* merge(nblocks, subtract(reference, targets)) and the callable set block_regions
\* returns is exactly the reference bases inside a target region and outside
\* every qualifying no-data block.
C1_TargetsRestrictCallable ==
    (br.pc = "done" /\ variant_regions.configured) =>
        /\ br.adjusted = Merge(br.nblocks, Subtract(get_ref_bedtool, variant_regions.regions), 0)
        /\ \A b \in RefBases :
              b \in Bases(br.blocks) <=>
                  (b \in Bases(variant_regions.regions) /\ ~InQualifyingRecord(b))

\* C2: with no variant_regions configured, _add_config_regions returns the
\* nblocks unchanged, block_regions returns subtract(reference, nblocks), and a
\* reference base is callable if and only if no NO_COVERAGE or REF_N record
\* longer than nomap_split_size covers it.
C2_NoTargetsCallableIsComplement ==
    (br.pc = "done" /\ ~variant_regions.configured) =>
        /\ br.adjusted = br.nblocks
        /\ br.blocks = Subtract(get_ref_bedtool, br.nblocks)
        /\ \A b \in RefBases : b \in Bases(br.blocks) <=> ~InQualifyingRecord(b)

\* C2's case: no targets, a qualifying block in the middle of chr1, and
\* callable blocks on both sides of it.
C2_Witness ==
    /\ br.pc = "done"
    /\ ~variant_regions.configured
    /\ \E i \in QualifyingRecords : RecordCoords(i) = <<"chr1", 1, MaxLen - 1>>
    /\ \E j \in DOMAIN br.blocks : br.blocks[j] = <<"chr1", 0, 1>>
    /\ \E j \in DOMAIN br.blocks : br.blocks[j] = <<"chr1", MaxLen - 1, MaxLen>>

\* C3: _get_nblock_regions emits an interval exactly for the records of
\* category NO_COVERAGE or REF_N with end - start > min_n_size: no emitted
\* interval is of length <= the threshold or comes from another record, and
\* every qualifying record appears once, coordinates unchanged, in file order.
C3_NBlocksAreQualifyingRecords ==
    br.pc = "done" =>
        /\ \A j \in DOMAIN br.nblocks : br.nblocks[j][3] - br.nblocks[j][2] > nomap_split_size
        /\ \A j \in DOMAIN br.nblocks : \E i \in QualifyingRecords : br.nblocks[j] = RecordCoords(i)
        /\ \A i \in QualifyingRecords : \E j \in DOMAIN br.nblocks : br.nblocks[j] = RecordCoords(i)
        /\ Len(br.nblocks) = Cardinality(QualifyingRecords)

\* C3's case: a threshold above zero, one no-data record kept, one no-data
\* record dropped for its length and one record dropped for its category.
C3_Witness ==
    /\ br.pc = "done"
    /\ nomap_split_size >= 1
    /\ br.nblocks /= <<>>
    /\ \E i \in DOMAIN br.callable_bed :
          /\ br.callable_bed[i][4] \in {"NO_COVERAGE", "REF_N"}
          /\ br.callable_bed[i][3] - br.callable_bed[i][2] = nomap_split_size
    /\ \E i \in DOMAIN br.callable_bed : br.callable_bed[i][4] \notin {"NO_COVERAGE", "REF_N"}

\* ------------------------------------------------- combine_sample_regions

\* The tuples of a sample's regions written as "c\ts\te" lines and read back
\* as a BedTool: one feature per tuple, in the list's order.
BedFromTuples(regions) == [i \in DOMAIN regions |-> <<regions[i][1], regions[i][2], regions[i][3]>>]

NoRegions == [set |-> FALSE, regions |-> <<>>]

\* A faulty variant: the first sample is merged as well, into an empty set.
FoldStep_MergeFirst(final_regions, regions, d) ==
    [set |-> TRUE, regions |-> Merge(final_regions.regions, BedFromTuples(regions), d)]

\* A faulty variant: a later sample is not added to the accumulator.
FoldStep_KeepFirst(final_regions, regions, d) ==
    IF ~final_regions.set
    THEN [set |-> TRUE, regions |-> BedFromTuples(regions)]
    ELSE final_regions

\* A faulty variant: the merge called without d, joining only what touches.
FoldStep_NoGap(final_regions, regions, d) ==
    LET bed_regions == BedFromTuples(regions)
    IN  IF ~final_regions.set
        THEN [set |-> TRUE, regions |-> bed_regions]
        ELSE [set |-> TRUE, regions |-> Merge(final_regions.regions, bed_regions, 0)]

\* A faulty variant: every sample replaces the accumulator.
FoldStep_Overwrite(final_regions, regions, d) ==
    [set |-> TRUE, regions |-> BedFromTuples(regions)]

\* One pass of the loop over the samples: the first sample's regions become
\* final_regions as they are, every later one is merged in with d = min_n_size.
FoldStep(final_regions, regions, d) ==
    LET bed_regions == BedFromTuples(regions)
    IN  IF ~final_regions.set
        THEN [set |-> TRUE, regions |-> bed_regions]
        ELSE [set |-> TRUE, regions |-> Merge(final_regions.regions, bed_regions, d)]

\* The loop from sample i on, final_regions being acc.
RECURSIVE FoldFrom(_, _, _, _)
FoldFrom(rs, i, acc, d) ==
    IF i > Len(rs) THEN acc ELSE FoldFrom(rs, i + 1, FoldStep(acc, rs[i], d), d)

\* final_regions after the loop over the regions rs of the samples.
FoldRegions(rs, d) == FoldFrom(rs, 1, NoRegions, d).regions

\* A faulty variant: the operands of the subtraction exchanged.
_write_bed_regions_Swapped(sample, final_regions) ==
    LET ref_regions == get_ref_bedtool
        noanalysis_regions == Subtract(final_regions, ref_regions)
    IN  [files |-> [region_files EXCEPT
                      ![<<sample.work_dir, "analysis_blocks.bed">>] = [exists |-> TRUE, lines |-> final_regions],
                      ![<<sample.work_dir, "noanalysis_blocks.bed">>] = [exists |-> TRUE, lines |-> noanalysis_regions]],
         out_file_ref |-> <<sample.work_dir, "noanalysis_blocks.bed">>]

\* _write_bed_regions: the files after both saveas calls, and the path returned.
_write_bed_regions(sample, final_regions) ==
    LET ref_regions == get_ref_bedtool
        noanalysis_regions == Subtract(ref_regions, final_regions)
    IN  [files |-> [region_files EXCEPT
                      ![<<sample.work_dir, "analysis_blocks.bed">>] = [exists |-> TRUE, lines |-> final_regions],
                      ![<<sample.work_dir, "noanalysis_blocks.bed">>] = [exists |-> TRUE, lines |-> noanalysis_regions]],
         out_file_ref |-> <<sample.work_dir, "noanalysis_blocks.bed">>]

\* A faulty variant: only the first sample is given the project-wide regions.
AssignRegions_FirstOnly(ss, regions) ==
    [i \in DOMAIN ss |-> IF i = 1 THEN [ss[i] EXCEPT !.regions = regions] ELSE ss[i]]

\* The closing loop: s["regions"] = regions for every sample.
AssignRegions(ss, regions) == [i \in DOMAIN ss |-> [ss[i] EXCEPT !.regions = regions]]

\* A list of blocks that is not in merged form: two blocks of the first
\* contig that abut.
AbuttingBlocks == <<<<"chr1", 0, 1>>, <<"chr1", 1, MaxLen>>>>

\* The regions a sample may come with: the callable sets block_regions can
\* return (the maximal runs of a set of reference bases), and a list a caller
\* built with abutting blocks.
SampleBlocks == {FromBases(S) : S \in SUBSET RefBases} \cup {AbuttingBlocks}

\* A sample as combine_sample_regions receives it; samples keep their work
\* directory apart (its number) so that the one written to can be told.
InputSample(i, blocks, gap) ==
    [work_dir |-> i, nomap_split_size |-> gap,
     regions |-> [kind |-> "blocks", analysis |-> blocks, noanalysis |-> <<0, "">>]]

\* The lists of this specification: one to MaxSamples samples with any
\* regions; the first sample's gap is any, and the later samples carry
\* another one, so that a gap read from the wrong sample shows.
InitCombine ==
    /\ coverage = [b \in RefBases |-> "CALLABLE"]
    /\ variant_regions = NoVariantRegions
    /\ nomap_split_size = 0
    /\ num_cores = 1
    /\ br = BrIdle
    /\ FilesIdle
    /\ region_files = [p \in RegionPaths |-> NoFile]
    /\ cs_pc = "start"
    /\ \E n \in 1..MaxSamples, gap1 \in 0..MaxSplitSize :
       \E gap2 \in {MaxSplitSize - gap1} :
          \E bs \in [1..n -> SampleBlocks] :
              /\ samples = [i \in 1..n |-> InputSample(i, bs[i], IF i = 1 THEN gap1 ELSE gap2)]
              /\ cs_args = bs

\* combine_sample_regions(samples), from call to return.
CombineSampleRegions ==
    /\ cs_pc = "start"
    /\ LET min_n_size == samples[1].nomap_split_size
           final_regions == FoldRegions([i \in DOMAIN samples |-> samples[i].regions.analysis], min_n_size)
           written == _write_bed_regions(samples[1], final_regions)
           regions == [kind |-> "assignment", analysis |-> final_regions,
                       noanalysis |-> written.out_file_ref]
       IN  /\ region_files' = written.files
           /\ samples' = AssignRegions(samples, regions)
    /\ cs_pc' = "done"
    /\ UNCHANGED <<regionVars, fileVars, cs_args>>

NextCombine == CombineSampleRegions

SpecCombine == InitCombine /\ [][NextCombine]_vars

\* ---------------------------------------- claims on combine_sample_regions

\* C4: after combine_sample_regions returns, every sample of the list carries
\* the identical regions assignment (the same analysis intervals and the same
\* noanalysis file); none keeps its own per-sample blocks.
C4_AllSamplesShareRegions ==
    cs_pc = "done" =>
        /\ \A i \in DOMAIN samples : samples[i].regions.kind = "assignment"
        /\ \A i, j \in DOMAIN samples : samples[i].regions = samples[j].regions

\* C4's case: two samples that came in with different callable sets.
C4_Witness ==
    /\ cs_pc = "done"
    /\ Len(samples) >= 2
    /\ cs_args[1] /= cs_args[2]
    /\ cs_args[2] /= <<>>
    /\ samples[2].regions.analysis /= <<>>
    /\ samples[2].regions.analysis /= cs_args[2]

Perms(n) == {f \in [1..n -> 1..n] : \A i, j \in 1..n : f[i] = f[j] => i = j}

\* C5: the project-wide analysis set does not depend on the order of the
\* samples: folding any permutation of the same callable sets with the same
\* gap gives the interval set the call computed.
C5_FoldOrderIndependent ==
    cs_pc = "done" =>
        \A f \in Perms(Len(cs_args)) :
            FoldRegions([i \in DOMAIN cs_args |-> cs_args[f[i]]], samples[1].nomap_split_size)
                = samples[1].regions.analysis

\* C5's case: two samples with different callable sets, neither containing
\* the other, whose blocks the gap joins.
C5_Witness ==
    /\ cs_pc = "done"
    /\ Len(cs_args) >= 2
    /\ ~(Bases(cs_args[1]) \subseteq Bases(cs_args[2]))
    /\ ~(Bases(cs_args[2]) \subseteq Bases(cs_args[1]))
    /\ samples[1].nomap_split_size >= 1
    /\ Bases(samples[1].regions.analysis) /= Bases(cs_args[1]) \cup Bases(cs_args[2])

\* The positions of contig c an interval set covers.
PositionsOn(I, c) == {b[2] : b \in {x \in Bases(I) : x[1] = c}}

\* C10: the two files combine_sample_regions persists partition the
\* reference: noanalysis = subtract(reference, analysis), the two are disjoint
\* and together cover exactly [0, length) of every reference contig.
C10_RegionFilesPartitionReference ==
    cs_pc = "done" =>
        LET noanalysis == region_files[samples[1].regions.noanalysis]
            analysis == region_files[<<samples[1].regions.noanalysis[1], "analysis_blocks.bed">>]
        IN  /\ analysis.exists /\ noanalysis.exists
            /\ analysis.lines = samples[1].regions.analysis
            /\ noanalysis.lines = Subtract(get_ref_bedtool, analysis.lines)
            /\ Bases(analysis.lines) \cap Bases(noanalysis.lines) = {}
            /\ \A i \in DOMAIN Contigs :
                  PositionsOn(analysis.lines, Contigs[i]) \cup PositionsOn(noanalysis.lines, Contigs[i])
                      = 0..(ContigLen(Contigs[i]) - 1)

\* C10's case: a run whose analysis and noanalysis files both hold blocks of
\* the first contig.
C10_Witness ==
    /\ cs_pc = "done"
    /\ \E j \in DOMAIN region_files[<<1, "analysis_blocks.bed">>].lines :
          region_files[<<1, "analysis_blocks.bed">>].lines[j][1] = "chr1"
    /\ \E j \in DOMAIN region_files[<<1, "noanalysis_blocks.bed">>].lines :
          region_files[<<1, "noanalysis_blocks.bed">>].lines[j][1] = "chr1"

\* ------------------------------------------------------------------- Spec

\* How many workers may fail or be killed in one behaviour.
MaxCrashes == 1

\* How many times the step may be run: once more than workers can fail.
MaxRuns == MaxCrashes + 1

\* The region a task is called with: none for the whole BAM, else its contig.
TaskRegion(t) == IF t = "whole" THEN NoRegion ELSE ContigRegion(t)

\* The BAMs of this specification: every base callable or without coverage.
CoverageChoices == [RefBases -> {"CALLABLE", "NO_COVERAGE"}]

\* The configurations of this specification: no targets, a target on the
\* first contig only, and targets on both contigs.
TargetChoices ==
    {NoVariantRegions,
     [configured |-> TRUE, regions |-> <<<<"chr1", 0, 1>>>>],
     [configured |-> TRUE, regions |-> <<<<"chr1", 1, MaxLen>>, <<"chr2", 0, 1>>>>]}

Init ==
    /\ coverage \in CoverageChoices
    /\ variant_regions \in TargetChoices
    /\ nomap_split_size \in 0..MaxSplitSize
    /\ num_cores \in {1, 2}
    /\ br = BrIdle
    /\ CombineIdle
    /\ driver_pc = "start"
    /\ pc = [t \in Tasks |-> "idle"]
    /\ fs = [p \in Paths |-> Absent]
    /\ copied = 0
    /\ calls = [t \in CalcTasks |-> NoCall]
    /\ run_absent = {}
    /\ runs = 1
    /\ crashes = 0
    /\ combined = NotCombined

\* A faulty variant: the existence check dropped, the classifier run at every call.
NeedsRun_Always(out_file) == TRUE

\* "if not utils.file_exists(out_file)" of calc_callable_loci and combine_bed.
NeedsRun(out_file) == ~fs[out_file].exists

\* A faulty variant: the classifier handed the final path.
GatkOut_Final(out_file) == out_file

\* The "--out" parameter: the transaction's path, not out_file.
GatkOut(out_file) == TxFile(out_file)

\* The steps of a task during which its process can fail or be killed.
Running == {"indexing", "subsetting", "gatk", "copying", "committing"}

\* The exit of a file_transaction block that ended without an exception: the
\* temporary file, when there is one, is moved onto out_file.
Committed(files, out_file) ==
    IF files[TxFile(out_file)].exists
    THEN [files EXCEPT ![out_file] = files[TxFile(out_file)], ![TxFile(out_file)] = Absent]
    ELSE files

\* parallel_callable_loci is called: with several cores the work is split by
\* contig unless the combined file exists; with one core calc_callable_loci
\* is called for the whole BAM.
DriverStart ==
    /\ driver_pc = "start"
    /\ run_absent' = {t \in CalcTasks : ~fs[OutFile(t)].exists}
    /\ IF num_cores > 1
       THEN IF fs[CallableBed].exists
            THEN /\ driver_pc' = "done"
                 /\ pc' = pc
            ELSE /\ driver_pc' = "waiting"
                 /\ pc' = [t \in Tasks |-> IF t \in PartitionTasks THEN "called" ELSE pc[t]]
       ELSE /\ driver_pc' = "waiting"
            /\ pc' = [pc EXCEPT !["whole"] = "called"]
    /\ UNCHANGED <<fs, copied, calls, runs, crashes>>
    /\ UNCHANGED <<regionVars, combineVars, combined>>

\* calc_callable_loci up to the existence check: return at once when
\* out_file exists, else enter the transaction and index the BAM.
CalcEnter(t) ==
    /\ pc[t] = "called"
    /\ pc' = [pc EXCEPT ![t] = IF NeedsRun(OutFile(t)) THEN "indexing" ELSE "done"]
    /\ UNCHANGED <<driver_pc, fs, copied, calls, run_absent, runs, crashes>>
    /\ UNCHANGED <<regionVars, combineVars, combined>>

\* broad_runner.run_fn("picard_index", work_bam) returns.
CalcIndexed(t) ==
    /\ pc[t] = "indexing"
    /\ pc' = [pc EXCEPT ![t] = "subsetting"]
    /\ UNCHANGED <<driver_pc, fs, copied, calls, run_absent, runs, crashes>>
    /\ UNCHANGED <<regionVars, combineVars, combined>>

\* subset_variant_regions returns and run_gatk starts the classifier, which
\* opens its output and its summary for writing.
CalcGatkStart(t) ==
    /\ pc[t] = "subsetting"
    /\ pc' = [pc EXCEPT ![t] = "gatk"]
    /\ calls' = [calls EXCEPT ![t] = [n |-> @.n + 1,
                                      L |-> subset_variant_regions(variant_regions, TaskRegion(t)),
                                      run |-> runs]]
    /\ fs' = [fs EXCEPT ![GatkOut(OutFile(t))] = [exists |-> TRUE, lines |-> <<>>, complete |-> FALSE],
                        ![SummaryFile] = [exists |-> TRUE, lines |-> <<>>, complete |-> FALSE]]
    /\ UNCHANGED <<driver_pc, copied, run_absent, runs, crashes>>
    /\ UNCHANGED <<regionVars, combineVars, combined>>

\* The classifier exits: its output and its summary are written in full.
CalcGatkDone(t) ==
    /\ pc[t] = "gatk"
    /\ pc' = [pc EXCEPT ![t] = "committing"]
    /\ fs' = [fs EXCEPT ![GatkOut(OutFile(t))] =
                            [exists |-> TRUE, lines |-> run_gatk(coverage, calls[t].L), complete |-> TRUE],
                        ![SummaryFile] = [exists |-> TRUE, lines |-> <<>>, complete |-> TRUE]]
    /\ UNCHANGED <<driver_pc, copied, calls, run_absent, runs, crashes>>
    /\ UNCHANGED <<regionVars, combineVars, combined>>

\* The transaction block of a task ends: the temporary file is renamed.
Commit(t) ==
    /\ pc[t] = "committing"
    /\ pc' = [pc EXCEPT ![t] = "done"]
    /\ fs' = Committed(fs, OutFile(t))
    /\ UNCHANGED <<driver_pc, copied, calls, run_absent, runs, crashes>>
    /\ UNCHANGED <<regionVars, combineVars, combined>>

\* A task fails inside its transaction: an exception, after which the
\* transaction removes its temporary file, or a kill, after which nothing runs.
Fail(t) ==
    /\ pc[t] \in Running
    /\ crashes < MaxCrashes
    /\ crashes' = crashes + 1
    /\ pc' = [pc EXCEPT ![t] = "failed"]
    /\ \E killed \in BOOLEAN :
          fs' = IF killed THEN fs ELSE [fs EXCEPT ![TxFile(OutFile(t))] = Absent]
    /\ UNCHANGED <<driver_pc, copied, calls, run_absent, runs>>
    /\ UNCHANGED <<regionVars, combineVars, combined>>

\* The parts handed to combine_bed: the out_files of the contigs, in the
\* order the work was split.
PartFiles == [i \in DOMAIN Contigs |-> OutFile(Contigs[i])]

\* A faulty variant: the in_files copied last to first.
CombineInputs_Reversed(in_files) == [i \in DOMAIN in_files |-> in_files[Len(in_files) + 1 - i]]

\* A faulty variant: the loop over in_files starts at the second file.
CombineInputs_SkipFirst(in_files) == Tail(in_files)

\* "for in_file in in_files": the files combine_bed copies, in order.
CombineInputs(in_files) == in_files

\* Every part has completed: combine_bed is called on their out_files.
DriverCombine ==
    /\ driver_pc = "waiting"
    /\ num_cores > 1
    /\ \A t \in PartitionTasks : pc[t] = "done"
    /\ driver_pc' = "combining"
    /\ pc' = [pc EXCEPT !["combine"] = "called"]
    /\ UNCHANGED <<fs, copied, calls, run_absent, runs, crashes>>
    /\ UNCHANGED <<regionVars, combineVars, combined>>

\* combine_bed up to opening the temporary file: return at once when
\* out_file exists.
CombineEnter ==
    /\ pc["combine"] = "called"
    /\ IF NeedsRun(CallableBed)
       THEN /\ pc' = [pc EXCEPT !["combine"] = "copying"]
            /\ fs' = [fs EXCEPT ![TxFile(CallableBed)] =
                                    [exists |-> TRUE, lines |-> <<>>, complete |-> FALSE]]
       ELSE /\ pc' = [pc EXCEPT !["combine"] = "done"]
            /\ fs' = fs
    /\ copied' = 0
    /\ combined' = [calls |-> combined.calls + 1,
                    writes |-> combined.writes + (IF NeedsRun(CallableBed) THEN 1 ELSE 0)]
    /\ UNCHANGED <<driver_pc, calls, run_absent, runs, crashes>>
    /\ UNCHANGED <<regionVars, combineVars>>

\* shutil.copyfileobj for the next in_file.
CombineCopy ==
    /\ pc["combine"] = "copying"
    /\ copied < Len(CombineInputs(PartFiles))
    /\ fs' = [fs EXCEPT ![TxFile(CallableBed)].lines =
                            @ \o fs[CombineInputs(PartFiles)[copied + 1]].lines]
    /\ copied' = copied + 1
    /\ UNCHANGED <<driver_pc, pc, calls, run_absent, runs, crashes>>
    /\ UNCHANGED <<regionVars, combineVars, combined>>

\* The loop is over and out_handle is closed.
CombineClose ==
    /\ pc["combine"] = "copying"
    /\ copied = Len(CombineInputs(PartFiles))
    /\ pc' = [pc EXCEPT !["combine"] = "committing"]
    /\ fs' = [fs EXCEPT ![TxFile(CallableBed)].complete = TRUE]
    /\ UNCHANGED <<driver_pc, copied, calls, run_absent, runs, crashes>>
    /\ UNCHANGED <<regionVars, combineVars, combined>>

\* parallel_callable_loci returns out[0]["callable_bed"].
DriverDone ==
    /\ \/ driver_pc = "waiting" /\ num_cores <= 1 /\ pc["whole"] = "done"
       \/ driver_pc = "combining" /\ pc["combine"] = "done"
    /\ driver_pc' = "done"
    /\ UNCHANGED <<pc, fs, copied, calls, run_absent, runs, crashes>>
    /\ UNCHANGED <<regionVars, combineVars, combined>>

\* A task has failed and no other is still at work: the step fails.
DriverFail ==
    /\ driver_pc \in {"waiting", "combining"}
    /\ \E t \in Tasks : pc[t] = "failed"
    /\ \A t \in Tasks : pc[t] \notin Running \cup {"called"}
    /\ driver_pc' = "failed"
    /\ UNCHANGED <<pc, fs, copied, calls, run_absent, runs, crashes>>
    /\ UNCHANGED <<regionVars, combineVars, combined>>

\* The pipeline step is run again, after a failure or after a completed run,
\* when no call of combine_bed is pending.
Rerun ==
    /\ driver_pc \in {"failed", "done"}
    /\ pc["combine"] # "called"
    /\ runs < MaxRuns
    /\ runs' = runs + 1
    /\ driver_pc' = "start"
    /\ pc' = [t \in Tasks |-> "idle"]
    /\ copied' = 0
    /\ UNCHANGED <<fs, calls, run_absent, crashes>>
    /\ UNCHANGED <<regionVars, combineVars, combined>>

\* combine_bed is called once more with the in_files and the out_file of the
\* call that has returned.
CombineAgain ==
    /\ driver_pc = "done"
    /\ pc["combine"] = "done"
    /\ combined.calls <= MaxRuns
    /\ pc' = [pc EXCEPT !["combine"] = "called"]
    /\ UNCHANGED <<driver_pc, fs, copied, calls, run_absent, runs, crashes>>
    /\ UNCHANGED <<regionVars, combineVars, combined>>

\* Every step but a failure, a re-run and a repeated call of combine_bed.
Progress ==
    \/ DriverStart
    \/ \E t \in CalcTasks : CalcEnter(t)
    \/ \E t \in CalcTasks : CalcIndexed(t)
    \/ \E t \in CalcTasks : CalcGatkStart(t)
    \/ \E t \in CalcTasks : CalcGatkDone(t)
    \/ \E t \in Tasks : Commit(t)
    \/ DriverCombine
    \/ CombineEnter
    \/ CombineCopy
    \/ CombineClose
    \/ DriverDone
    \/ DriverFail

Next ==
    \/ Progress
    \/ \E t \in Tasks : Fail(t)
    \/ Rerun
    \/ CombineAgain

Spec == Init /\ [][Next]_vars

\* The workers and the driver are processes of the operating system: a step
\* that stays possible is taken.
FairSpec == Spec /\ WF_vars(Progress)

\* ------------------------------------------------- claims on the files

\* The calc_callable_loci calls the configuration leads to: the whole BAM
\* with one core, one call per contig with several.
Dispatched == IF num_cores > 1 THEN PartitionTasks ELSE {"whole"}

\* The out_file of a calc_callable_loci call does not exist, or holds the
\* complete output of the call.
OutFileAbsentOrComplete ==
    \A t \in Dispatched :
        fs[OutFile(t)].exists =>
            /\ fs[OutFile(t)].complete
            /\ fs[OutFile(t)].lines = GatkRecords(coverage, variant_regions, TaskRegion(t))

\* The out_file of a calc_callable_loci call comes to exist only as the
\* finished temporary file of its transaction, renamed.
OutFileAppearsByRename ==
    \A t \in Dispatched :
        (~fs[OutFile(t)].exists /\ fs'[OutFile(t)].exists) =>
            /\ pc[t] = "committing" /\ pc'[t] = "done"
            /\ fs[TxFile(OutFile(t))].complete
            /\ fs'[OutFile(t)] = fs[TxFile(OutFile(t))]

\* C6: calc_callable_loci writes the classifier output to the transaction's
\* temporary path only; out_file comes to exist only by the rename after the
\* classifier has finished, so whatever step a crash or exception hits,
\* out_file does not exist or holds the complete output, never a partial one.
C6_OutFileNeverPartial == []OutFileAbsentOrComplete /\ [][OutFileAppearsByRename]_vars

\* C6's case: a worker killed while the classifier was writing; the
\* temporary file is left half written and out_file does not exist.
C6_Witness ==
    \E t \in Dispatched :
        /\ pc[t] = "failed"
        /\ calls[t].n >= 1
        /\ fs[TxFile(OutFile(t))].exists
        /\ ~fs[TxFile(OutFile(t))].complete
        /\ ~fs[OutFile(t)].exists

\* C7: every file the module writes is written to a temporary path and
\* renamed: no final path ever holds a half-written file, and no two workers
\* write to the same final path at the same time.
C7_EveryWriterIsAtomic ==
    /\ \A p \in FinalPaths : fs[p].exists => fs[p].complete
    /\ \A t1, t2 \in CalcTasks : (pc[t1] = "gatk" /\ pc[t2] = "gatk") => t1 = t2

RecordSet(lines) == {lines[i] : i \in DOMAIN lines}

\* C8: the callable BED a run of parallel_callable_loci ends with holds the
\* same set of classification records as the other path (one core against
\* several) produces for the same BAM and configuration, and block_regions
\* derives the same callable intervals from it.
C8_OneCoreAndSeveralAgree ==
    driver_pc = "done" =>
        LET other == IF num_cores > 1 THEN 1 ELSE 2
            file == fs[CallableBed]
            nblocks == _get_nblock_regions(file.lines, nomap_split_size)
            adjusted == _add_config_regions(nblocks, get_ref_bedtool, variant_regions)
        IN  /\ file.exists /\ file.complete
            /\ RecordSet(file.lines) = RecordSet(CallableBedRecords(coverage, variant_regions, other))
            /\ Subtract(get_ref_bedtool, adjusted)
                   = block_regions(coverage, variant_regions, nomap_split_size, other).blocks

\* C8's case: a run with several cores that ended with records of both
\* contigs, callable and not, in the combined file.
C8_Witness ==
    /\ driver_pc = "done"
    /\ num_cores > 1
    /\ \E i, j, k \in DOMAIN fs[CallableBed].lines :
          /\ fs[CallableBed].lines[i][1] = "chr1" /\ fs[CallableBed].lines[i][4] = "NO_COVERAGE"
          /\ fs[CallableBed].lines[j][1] = "chr1" /\ fs[CallableBed].lines[j][4] = "CALLABLE"
          /\ fs[CallableBed].lines[k][1] = "chr2"

\* A failed task has left no out_file.
FailedLeavesNoOutFile == \A t \in Tasks : pc[t] = "failed" => ~fs[OutFile(t)].exists

\* In a run the classifier is invoked for a call only if its out_file did not
\* exist when the run began, and a call that has returned invoked it exactly then.
InvokedIffAbsent ==
    \A t \in CalcTasks :
        /\ calls[t].run = runs => t \in run_absent
        /\ pc[t] = "done" => (calls[t].run = runs <=> t \in run_absent)

\* A run that has ended holds the complete records of every part.
DoneHoldsEveryPart ==
    driver_pc = "done" =>
        /\ fs[CallableBed].exists /\ fs[CallableBed].complete
        /\ fs[CallableBed].lines = CallableBedRecords(coverage, variant_regions, num_cores)

\* C9: re-running the step after a worker failed or was killed is safe: the
\* failed part left no out_file, the re-run invokes the classifier exactly
\* for the parts whose out_file does not exist, and a re-run in which no
\* further failure occurs ends with the combined file holding the complete
\* records of every part.
C9_RerunIsSafe ==
    /\ []FailedLeavesNoOutFile
    /\ []InvokedIffAbsent
    /\ []DoneHoldsEveryPart
    /\ (runs > 1 /\ driver_pc = "start" /\ crashes = MaxCrashes)
           ~> (driver_pc = "done" /\ fs[CallableBed].complete)

\* C9's case: a re-run with several cores, after a failure, that skipped the
\* part completed by the first run, invoked the classifier for the other and
\* ended with the combined file.
C9_Witness ==
    /\ driver_pc = "done"
    /\ runs > 1
    /\ crashes >= 1
    /\ fs[CallableBed].complete
    /\ \E t1, t2 \in PartitionTasks :
          /\ calls[t1].n = 1 /\ calls[t1].run < runs
          /\ calls[t2].run = runs

\* ----------------------------------------- further claims on the files

\* A call of calc_callable_loci for task t returns in this step.
CalcReturns(t) == pc[t] = "called" /\ pc'[t] # "called"

\* A call entered with its out_file present returns at once: it goes from the
\* existence check to the return, and no file and no classifier call changes.
SkipsWhenPresent ==
    \A t \in CalcTasks :
        (CalcReturns(t) /\ fs[OutFile(t)].exists)
            => /\ pc'[t] = "done"
               /\ fs' = fs
               /\ calls' = calls

\* An out_file that exists keeps its content.
OutFileKept ==
    \A t \in CalcTasks : fs[OutFile(t)].exists => fs'[OutFile(t)] = fs[OutFile(t)]

\* While no call has failed the classifier has run at most once per out_file.
AtMostOncePerOutFile ==
    crashes = 0 => \A t \in CalcTasks : calls[t].n <= 1

\* C11: calc_callable_loci is idempotent: a call that finds out_file present
\* returns without indexing, subsetting or running the classifier and leaves
\* the file as it is, and over successful calls the classifier runs at most
\* once per out_file.
C11_CalcIsIdempotent ==
    /\ [][SkipsWhenPresent /\ OutFileKept]_vars
    /\ []AtMostOncePerOutFile

\* The step was run a second time after a complete first run, and the call for
\* the whole BAM returned with the classifier call of the first run only.
C11_Witness ==
    /\ runs > 1
    /\ crashes = 0
    /\ num_cores = 1
    /\ pc["whole"] = "done"
    /\ calls["whole"].n = 1
    /\ calls["whole"].run < runs
    /\ fs[CallableBed].complete

\* A call of combine_bed returns or starts to write in this step.
CombineLeavesCheck == pc["combine"] = "called" /\ pc'["combine"] # "called"

\* A call of combine_bed that finds the combined file returns at once: no
\* file changes and nothing is written.
CombineSkipsWhenPresent ==
    (CombineLeavesCheck /\ fs[CallableBed].exists)
        => /\ pc'["combine"] = "done"
           /\ fs' = fs
           /\ combined'.writes = combined.writes

\* While no call has failed combine_bed has written at most once.
CombineWritesOnce == crashes = 0 => combined.writes <= 1

\* C12: combine_bed is idempotent: a call that finds the combined file skips
\* the recombination, and a second call on the same completed in_files writes
\* nothing and leaves the combined file as it is.
C12_CombineIsIdempotent ==
    /\ [][CombineSkipsWhenPresent]_vars
    /\ []CombineWritesOnce

\* combine_bed was called twice on the same in_files, both calls returned, and
\* the combined file is the one the first call wrote.
C12_Witness ==
    /\ combined.calls = 2
    /\ combined.writes = 1
    /\ pc["combine"] = "done"
    /\ fs[CallableBed].complete
    /\ fs[CallableBed].lines # <<>>

\* ------------------------------------------------------------ SpecNBlocks
\* _get_nblock_regions and block_regions on a callable BED file that is
\* already on disk, whatever its lines are.

\* A whitespace-separated field of a line: its text, whether int() accepts
\* it, and the integer it then gives.
TextField(s) == [text |-> s, int |-> FALSE, value |-> 0]

IntField(v) == [text |-> "", int |-> TRUE, value |-> v]

\* The fields a line may hold where a coordinate is expected.
CoordFields == {IntField(v) : v \in 0..MaxLen} \cup {TextField("x")}

\* The lines of the files of this specification, as line.rstrip().split()
\* returns them: four fields with any coordinates, and one line each with
\* three and with five fields.
RawLines ==
    {<<TextField("chr1"), s, e, TextField(c)>> :
        s \in CoordFields, e \in CoordFields, c \in {"NO_COVERAGE", "CALLABLE"}}
    \cup {<<TextField("chr1"), IntField(0), IntField(1)>>}
    \cup {<<TextField("chr1"), IntField(0), IntField(1), TextField("NO_COVERAGE"), TextField("x")>>}

\* One pass of the loop of _get_nblock_regions: the unpacking into four names
\* raises on any other number of fields; int(end) and int(start) are
\* evaluated only for a line of a no-data category, and raise on a field that
\* is no integer; a line is kept when end - start > min_n_size.
NBlockLine(fields, min_n_size) ==
    IF Len(fields) # 4 THEN "raise"
    ELSE IF fields[4].text \notin NBlockCategories THEN "drop"
    ELSE IF ~fields[3].int \/ ~fields[2].int THEN "raise"
    ELSE IF fields[3].value - fields[2].value > min_n_size THEN "keep"
    ELSE "drop"

\* _get_nblock_regions over the lines of a file: the kept lines in file
\* order, or the exception of the first line that raises.
RECURSIVE ReadNBlockRegions(_, _)
ReadNBlockRegions(lines, min_n_size) ==
    IF lines = <<>> THEN [raised |-> FALSE, regions |-> <<>>]
    ELSE LET f == Head(lines)
             what == NBlockLine(f, min_n_size)
             rest == ReadNBlockRegions(Tail(lines), min_n_size)
         IN  IF what = "raise" \/ rest.raised THEN [raised |-> TRUE, regions |-> <<>>]
             ELSE IF what = "keep"
                  THEN [raised |-> FALSE,
                        regions |-> <<<<f[1].text, f[2].value, f[3].value>>>> \o rest.regions]
                  ELSE rest

InitNBlocks ==
    /\ coverage = [b \in RefBases |-> "CALLABLE"]
    /\ variant_regions = NoVariantRegions
    /\ nomap_split_size \in 0..MaxSplitSize
    /\ num_cores = 1
    /\ \E a \in RawLines, b \in RawLines, two \in BOOLEAN :
          br = [pc |-> "read", callable_bed |-> IF two THEN <<a, b>> ELSE <<a>>,
                nblocks |-> <<>>, adjusted |-> <<>>, blocks |-> <<>>]
    /\ CombineIdle
    /\ FilesIdle

\* block_regions from the call of _get_nblock_regions to its return, on the
\* callable BED file parallel_callable_loci found in place.
GetNBlockRegions ==
    /\ br.pc = "read"
    /\ LET read == ReadNBlockRegions(br.callable_bed, nomap_split_size)
           adjusted == _add_config_regions(read.regions, get_ref_bedtool, variant_regions)
       IN  br' = IF read.raised
                 THEN [br EXCEPT !.pc = "raised"]
                 ELSE [br EXCEPT !.pc = "done", !.nblocks = read.regions,
                                 !.adjusted = adjusted,
                                 !.blocks = Subtract(get_ref_bedtool, adjusted)]
    /\ UNCHANGED <<coverage, variant_regions, nomap_split_size, num_cores>>
    /\ UNCHANGED <<combineVars, fileVars>>

NextNBlocks == GetNBlockRegions

SpecNBlocks == InitNBlocks /\ [][NextNBlocks]_vars

\* A line that is no record: not four fields, a coordinate that is no
\* integer, or an end that is not beyond the start.
Malformed(fields) ==
    \/ Len(fields) # 4
    \/ ~fields[2].int
    \/ ~fields[3].int
    \/ fields[3].value <= fields[2].value

\* C13: a malformed record is never dropped in silence: a file holding a line
\* with a wrong number of fields, with a coordinate that is no integer, or
\* with end <= start makes _get_nblock_regions, and so block_regions, raise.
C13_MalformedRecordsAbort ==
    (br.pc \in {"done", "raised"}
        /\ \E i \in DOMAIN br.callable_bed : Malformed(br.callable_bed[i]))
    => br.pc = "raised"

\* The malformed lines that do raise: a wrong number of fields, and a
\* coordinate that is no integer on a line of a no-data category.
C13_RaisingLinesAbort ==
    (br.pc \in {"done", "raised"}
        /\ \E i \in DOMAIN br.callable_bed :
              LET f == br.callable_bed[i]
              IN  \/ Len(f) # 4
                  \/ f[4].text \in NBlockCategories /\ (~f[2].int \/ ~f[3].int))
    => br.pc = "raised"

\* Task t is called with a region, targets are configured, and no target
\* lies in the region.
EmptySubset(t) ==
    /\ variant_regions.configured
    /\ TaskRegion(t).given
    /\ TaskRegion(t).bases \cap Bases(variant_regions.regions) = {}

\* C14: when a region is given, variant_regions is configured and they do not
\* intersect, calc_callable_loci still runs the classifier, restricted to the
\* empty region: the call is not skipped and the classifier does not cover
\* the whole BAM.
C14_EmptySubsetStillRuns ==
    \A t \in CalcTasks :
        EmptySubset(t) =>
            /\ (pc[t] \in {"gatk", "committing"} \/ (pc[t] = "done" /\ t \in run_absent))
                  => /\ calls[t].n >= 1
                     /\ calls[t].run = runs
                     /\ calls[t].L.given
                     /\ calls[t].L.bases = {}
            /\ fs[TxFile(OutFile(t))].complete => fs[TxFile(OutFile(t))].lines = <<>>
            /\ fs[OutFile(t)].exists => fs[OutFile(t)].lines = <<>>

\* The call for the second contig, with a target on the first contig only,
\* has run the classifier once, on a BAM with data on the second contig, and
\* has committed an out_file without records.
C14_Witness ==
    /\ EmptySubset("chr2")
    /\ coverage[<<"chr2", 0>>] = "CALLABLE"
    /\ pc["chr2"] = "done"
    /\ calls["chr2"].n = 1
    /\ calls["chr2"].L = [given |-> TRUE, bases |-> {}]
    /\ fs[OutFile("chr2")].complete
    /\ fs[OutFile("chr2")].lines = <<>>

\* The place of an interval in the reference order: its contig's position in
\* the reference, then its start.
Precedes(a, b) ==
    \/ ContigIndex(a[1]) < ContigIndex(b[1])
    \/ a[1] = b[1] /\ a[3] <= b[2]

\* C16: the blocks block_regions returns are ordered and well-formed: contigs
\* in reference order, within a contig ascending by start and pairwise
\* non-overlapping, and every block with 0 <= start < end <= contig length.
C16_BlocksOrdered ==
    br.pc = "done" =>
        /\ \A i \in DOMAIN br.blocks :
              /\ \E k \in DOMAIN Contigs : br.blocks[i][1] = Contigs[k]
              /\ 0 <= br.blocks[i][2]
              /\ br.blocks[i][2] < br.blocks[i][3]
              /\ br.blocks[i][3] <= ContigLen(br.blocks[i][1])
        /\ \A i, j \in DOMAIN br.blocks : i < j => Precedes(br.blocks[i], br.blocks[j])

\* block_regions returned three blocks, two on the first contig around a
\* no-data block and one on the second.
C16_Witness ==
    /\ br.pc = "done"
    /\ Len(br.blocks) = 3
    /\ br.blocks[1][1] = "chr1"
    /\ br.blocks[2][1] = "chr1"
    /\ br.blocks[3][1] = "chr2"
    /\ br.nblocks # <<>>

\* combine_bed runs only while every part has returned with its out_file.
CombineAfterEveryPart ==
    pc["combine"] \in {"called", "copying", "committing", "done"}
        => \A t \in PartitionTasks : pc[t] = "done" /\ fs[OutFile(t)].complete

\* The combined file, when the work was split, is the part files one after
\* the other in split order, each record once, and in reference order.
CombinedIsConcatenation ==
    (num_cores > 1 /\ fs[CallableBed].exists) =>
        LET lines == fs[CallableBed].lines
        IN  /\ \A t \in PartitionTasks : fs[OutFile(t)].complete
            /\ lines = Flatten([i \in DOMAIN PartFiles |-> fs[PartFiles[i]].lines])
            /\ \A i, j \in DOMAIN lines : i < j => Precedes(lines[i], lines[j])
            /\ \A t \in PartitionTasks : \A k \in DOMAIN fs[OutFile(t)].lines :
                  Cardinality({i \in DOMAIN lines : lines[i] = fs[OutFile(t)].lines[k]}) = 1

\* C17: the combined callable file is produced only after every dispatched
\* part has completed; it is the part files concatenated in split order, with
\* every part's records exactly once and in sorted order; a combined file made
\* of some of the parts never exists.
C17_CombinedAfterAllParts == CombineAfterEveryPart /\ CombinedIsConcatenation

\* A split run has combined two parts that both hold records.
C17_Witness ==
    /\ num_cores > 1
    /\ pc["combine"] = "done"
    /\ fs[CallableBed].complete
    /\ \A t \in PartitionTasks : fs[OutFile(t)].lines # <<>>
    /\ Len(fs[CallableBed].lines) >= 3

\* ------------------------------- further claims on combine_sample_regions

\* What the call worked with: the gap, every interval of every sample, the
\* bases they cover, and the analysis set it returned.
Gap == samples[1].nomap_split_size

InputIntervals == UNION {{cs_args[i][k] : k \in DOMAIN cs_args[i]} : i \in DOMAIN cs_args}

InputBases == UNION {Bases(cs_args[i]) : i \in DOMAIN cs_args}

Analysis == samples[1].regions.analysis

AnalysisIntervals == {Analysis[k] : k \in DOMAIN Analysis}

\* Interval a lies within interval r.
Within(a, r) == a[1] = r[1] /\ r[2] <= a[2] /\ a[3] <= r[3]

\* Intervals a and b of one contig overlap, abut or are at most g bases apart.
Near(a, b, g) == a[1] = b[1] /\ b[2] - a[3] <= g /\ a[2] - b[3] <= g

\* The analysis set is the gap-closed union of the inputs: every input
\* interval lies within an analysis interval; inputs that overlap, abut or are
\* at most Gap apart lie within the same one; analysis intervals are more
\* than Gap apart from each other; and an analysis interval begins and ends
\* with a covered base and has no uncovered stretch longer than Gap.
GapClosedUnion ==
    /\ \A a \in InputIntervals : \E r \in AnalysisIntervals : Within(a, r)
    /\ \A a, b \in InputIntervals :
          Near(a, b, Gap) => \E r \in AnalysisIntervals : Within(a, r) /\ Within(b, r)
    /\ \A i, j \in DOMAIN Analysis :
          (i < j /\ Analysis[i][1] = Analysis[j][1]) => Analysis[j][2] - Analysis[i][3] > Gap
    /\ \A r \in AnalysisIntervals :
          /\ <<r[1], r[2]>> \in InputBases
          /\ <<r[1], r[3] - 1>> \in InputBases
          /\ \A p \in r[2]..(r[3] - 1) :
                \E q \in p..(p + Gap) : q < r[3] /\ <<r[1], q>> \in InputBases

MergeTwiceIsMergeOnce ==
    \A i, j \in DOMAIN cs_args :
        LET merged == Merge(cs_args[i], cs_args[j], Gap)
        IN  Merge(merged, cs_args[j], Gap) = merged

\* One more pass of the loop, over a sample of the list, gives the analysis
\* set the call returned.
RefoldingChangesNothing ==
    \A j \in DOMAIN cs_args :
        FoldStep([set |-> TRUE, regions |-> Analysis], cs_args[j], Gap).regions = Analysis

ClosedWith(g) ==
    /\ \A a, b \in InputIntervals :
          Near(a, b, g) => \E r \in AnalysisIntervals : Within(a, r) /\ Within(b, r)
    /\ \A i, j \in DOMAIN Analysis :
          (i < j /\ Analysis[i][1] = Analysis[j][1]) => Analysis[j][2] - Analysis[i][3] > g
    /\ \A r \in AnalysisIntervals :
          \A p \in r[2]..(r[3] - 1) :
              \E q \in p..(p + g) : q < r[3] /\ <<r[1], q>> \in InputBases

\* The region files the call wrote are in the first sample's directory, and
\* the noanalysis file every sample is given is the one there.
WrittenForFirstSample ==
    /\ \A p \in RegionPaths : region_files[p].exists <=> p[1] = samples[1].work_dir
    /\ \A i \in DOMAIN samples :
          samples[i].regions.noanalysis = <<samples[1].work_dir, "noanalysis_blocks.bed">>

C19_GapOfFirstSample ==
    /\ cs_pc = "done"
    /\ Len(cs_args) = 2
    /\ samples[1].nomap_split_size # samples[2].nomap_split_size
    /\ ~ClosedWith(samples[2].nomap_split_size)

\* final_regions after the first k samples of the call.
Accumulated(k) == FoldFrom(SubSeq(cs_args, 1, k), 1, NoRegions, Gap).regions

\* Every pass of the loop keeps what was accumulated and adds the sample.
EveryStepKeepsBases ==
    \A k \in DOMAIN cs_args :
        Bases(Accumulated(k - 1)) \cup Bases(cs_args[k]) \subseteq Bases(Accumulated(k))

\* C20: merging loses no callable base: after every step of the fold the
\* accumulated set covers what it covered before and the sample just folded
\* in, and every interval of every input sample lies within an interval of
\* the analysis set the call returns.
C20_NoCallableBaseLost ==
    cs_pc = "done" =>
        /\ EveryStepKeepsBases
        /\ Accumulated(Len(cs_args)) = Analysis
        /\ \A a \in InputIntervals : \E r \in AnalysisIntervals : Within(a, r)

\* Two samples, each with callable bases the other lacks, and an analysis set
\* that holds the bases of both.
C20_Witness ==
    /\ cs_pc = "done"
    /\ Len(cs_args) = 2
    /\ ~(Bases(cs_args[1]) \subseteq Bases(cs_args[2]))
    /\ ~(Bases(cs_args[2]) \subseteq Bases(cs_args[1]))
    /\ InputBases \subseteq Bases(Analysis)
    /\ Len(Analysis) >= 2

=============================================================================
